---- MODULE Spec2Model ----
(***************************************************************************)
(* Medication adherence core of Health-Mate (backend_fastapi):             *)
(* schedule generation, dose status evaluation, stock accounting, the live *)
(* per-day dose state of a medication, the dose_logs and dose_schedules    *)
(* collections, the permanent dose_history ledger and its statistics       *)
(* (adherence, streak, week-over-week comparison).                         *)
(*                                                                         *)
(* Representation.  A clock time "HH:MM" is the number of minutes since    *)
(* midnight (zero-padded "HH:MM" strings and 0..1439 correspond one to     *)
(* one and order the same way).  An instant of the current day is the      *)
(* number of seconds since midnight.  A date "YYYY-MM-DD" is a day number. *)
(* A request is a process: every await on the database is one step, the    *)
(* code between two awaits runs without interruption.  A percentage        *)
(* rounded to one decimal is the number of its tenths.                     *)
(***************************************************************************)
EXTENDS Integers, Sequences, FiniteSets, TLC

VARIABLES
    today,      \* current calendar day (datetime.now() date)
    now,        \* current instant of the day, in seconds since midnight
    meds,       \* medications collection: id -> document or NoDoc
    dose_logs,  \* dose_logs collection: sequence of documents
    schedules,  \* dose_schedules collection: sequence of documents
    history,    \* dose_history collection (the ledger): sequence of documents
    proc,       \* requests in flight: process -> frame (pc, arguments, locals)
    nops,       \* number of requests started so far
    limit,      \* number of requests the behaviour may start
    call,       \* pure-function harness: the call under evaluation
    out         \* pure-function harness: its result

vars == <<today, now, meds, dose_logs, schedules, history, proc, nops, limit, call, out>>

-----------------------------------------------------------------------------
(* Values                                                                  *)

None == "None"
NoTime == -1            \* an absent "HH:MM" / datetime argument
NoInt == -1000          \* None for an Optional[int] (current_stock not tracked, field not given)
NoDoc == [absent |-> TRUE]
NoResult == [fn |-> "none"]

HM(h, m) == h * 60 + m
Hour(t) == t \div 60

Min(a, b) == IF a <= b THEN a ELSE b
Max(a, b) == IF a >= b THEN a ELSE b

\* Python int(x / d) for d > 0: truncation toward zero
TruncDiv(x, d) == IF x >= 0 THEN x \div d ELSE -((-x) \div d)

\* Python list slice l[:n]
SliceTo(l, n) ==
    IF n >= 0 THEN SubSeq(l, 1, Min(n, Len(l)))
    ELSE SubSeq(l, 1, Max(Len(l) + n, 0))

Range(s) == {s[i] : i \in DOMAIN s}

-----------------------------------------------------------------------------
(* models/dose_schedule.py                                                 *)

Single(t) == [kind |-> "single", times |-> <<t>>]

TIMING_PRESETS ==
    [t \in {"Before breakfast", "After breakfast", "Before lunch", "After lunch",
            "Before dinner", "After dinner", "Before bed", "With meals",
            "Empty stomach", "As needed"} |->
        CASE t = "Before breakfast" -> Single(HM(7, 0))
          [] t = "After breakfast"  -> Single(HM(8, 30))
          [] t = "Before lunch"     -> Single(HM(11, 30))
          [] t = "After lunch"      -> Single(HM(13, 0))
          [] t = "Before dinner"    -> Single(HM(18, 30))
          [] t = "After dinner"     -> Single(HM(19, 30))
          [] t = "Before bed"       -> Single(HM(22, 0))
          [] t = "With meals"       -> [kind |-> "list",
                                        times |-> <<HM(8, 0), HM(13, 0), HM(19, 0)>>]
          [] t = "Empty stomach"    -> Single(HM(6, 30))
          [] t = "As needed"        -> [kind |-> "none", times |-> <<>>]]

DEFAULT_SCHEDULES ==
    [f \in 1..6 |->
        CASE f = 1 -> <<HM(8, 0)>>
          [] f = 2 -> <<HM(8, 0), HM(20, 0)>>
          [] f = 3 -> <<HM(8, 0), HM(14, 0), HM(22, 0)>>
          [] f = 4 -> <<HM(8, 0), HM(12, 0), HM(18, 0), HM(22, 0)>>
          [] f = 5 -> <<HM(6, 0), HM(10, 0), HM(14, 0), HM(18, 0), HM(22, 0)>>
          [] f = 6 -> <<HM(6, 0), HM(10, 0), HM(14, 0), HM(18, 0), HM(22, 0), HM(2, 0)>>]

EARLY_WINDOW == 30
ON_TIME_WINDOW == 30
MISSED_THRESHOLD == 120

-----------------------------------------------------------------------------
(* services/user/dose_service.py: pure functions                           *)

\* DEFAULT_SCHEDULES.get(frequency, DEFAULT_SCHEDULES[dflt])
DefaultGet(frequency, dflt) ==
    IF frequency \in DOMAIN DEFAULT_SCHEDULES
    THEN DEFAULT_SCHEDULES[frequency] ELSE DEFAULT_SCHEDULES[dflt]

generate_schedule_times(frequency, timing) ==
    IF timing # None /\ timing # "" /\ timing \in DOMAIN TIMING_PRESETS
    THEN LET preset == TIMING_PRESETS[timing] IN
         IF preset.kind = "list" THEN SliceTo(preset.times, frequency)
         ELSE IF preset.kind = "single" THEN
              IF frequency = 1 THEN preset.times
              ELSE IF frequency = 2
                   THEN <<preset.times[1],
                          HM((Hour(preset.times[1]) + 12) % 24, 0)>>
              ELSE IF frequency >= 3 THEN DefaultGet(frequency, 3)
              ELSE DefaultGet(frequency, 1)
         ELSE DefaultGet(frequency, 1)
    ELSE DefaultGet(frequency, 1)

\* the evaluator with the on-time window closed one minute early
calculate_dose_status_short(scheduled_time, nowSec, taken_at) ==
    IF taken_at # NoTime
    THEN LET diff_minutes == TruncDiv(taken_at * 60 - scheduled_time * 60, 60) IN
         IF -EARLY_WINDOW <= diff_minutes /\ diff_minutes < ON_TIME_WINDOW
         THEN [status |-> "taken", diff |-> diff_minutes]
         ELSE [status |-> "late", diff |-> diff_minutes]
    ELSE LET diff_minutes == TruncDiv(nowSec - scheduled_time * 60, 60) IN
         IF diff_minutes < -EARLY_WINDOW
         THEN [status |-> "pending", diff |-> diff_minutes]
         ELSE IF diff_minutes <= MISSED_THRESHOLD
              THEN [status |-> "available", diff |-> diff_minutes]
              ELSE [status |-> "missed", diff |-> diff_minutes]

\* -> [status, diff]; nowSec in seconds, scheduled_time and taken_at in minutes
calculate_dose_status(scheduled_time, nowSec, taken_at) ==
    IF taken_at # NoTime
    THEN LET diff_minutes == TruncDiv(taken_at * 60 - scheduled_time * 60, 60) IN
         IF -EARLY_WINDOW <= diff_minutes /\ diff_minutes <= ON_TIME_WINDOW
         THEN [status |-> "taken", diff |-> diff_minutes]
         ELSE [status |-> "late", diff |-> diff_minutes]
    ELSE LET diff_minutes == TruncDiv(nowSec - scheduled_time * 60, 60) IN
         IF diff_minutes < -EARLY_WINDOW
         THEN [status |-> "pending", diff |-> diff_minutes]
         ELSE IF diff_minutes <= MISSED_THRESHOLD
              THEN [status |-> "available", diff |-> diff_minutes]
              ELSE [status |-> "missed", diff |-> diff_minutes]

-----------------------------------------------------------------------------
(* services/user/medication_service.py: pure functions                     *)

\* calculate_stock_days_remaining: "not current_stock" holds for None and 0
calculate_stock_days_remaining(current_stock, frequency, dose_per_intake) ==
    IF current_stock = NoInt \/ current_stock = 0 \/ frequency = 0 THEN 0
    ELSE LET daily_consumption == frequency * dose_per_intake IN
         IF daily_consumption <= 0 THEN 0
         ELSE current_stock \div daily_consumption

\* calculate_stock_status; total_stock is not used by the code
calculate_stock_status(current_stock, total_stock, frequency, dose_per_intake) ==
    IF current_stock = NoInt THEN "unknown"
    ELSE IF current_stock <= 0 THEN "out"
    ELSE LET dc == frequency * dose_per_intake
             daily_consumption == IF dc <= 0 THEN 1 ELSE dc
             days_remaining == current_stock \div daily_consumption
         IN IF days_remaining <= 3 THEN "critical"
            ELSE IF days_remaining <= 7 THEN "low"
            ELSE IF days_remaining <= 14 THEN "medium"
            ELSE "healthy"

\* int(start_hour + i * interval), interval = 14 / (frequency - 1)
med_generate_schedule_times(frequency) ==
    IF frequency <= 0 THEN <<>>
    ELSE IF frequency = 1 THEN <<HM(8, 0)>>
    ELSE IF frequency = 2 THEN <<HM(8, 0), HM(20, 0)>>
    ELSE IF frequency = 3 THEN <<HM(8, 0), HM(14, 0), HM(20, 0)>>
    ELSE IF frequency = 4 THEN <<HM(8, 0), HM(12, 0), HM(16, 0), HM(20, 0)>>
    ELSE [i \in 1..frequency |->
             HM(8 + ((i - 1) * (22 - 8)) \div (frequency - 1), 0)]

-----------------------------------------------------------------------------
(* Model bounds and input sets                                             *)

MaxOps == 3             \* requests started in one behaviour, requests overlapping
MaxSeqOps == 3          \* requests started in one behaviour, one request at a time
MaxDay == 2             \* calendar days covered

Procs == {"p1", "p2"}
ProcOrder == [p \in Procs |-> IF p = "p1" THEN 1 ELSE 2]
Users == {"u1"}
MedIds == {"m1"}        \* ids insert_one assigns, in this order
UnknownId == "m0"       \* an id of no medication
AllIds == MedIds \cup {UnknownId}

HMS(h, m, s) == (h * 60 + m) * 60 + s
ClockTimes == {HMS(8, 10, 0), HMS(8, 30, 30)}
SlotArgs == {HM(8, 0), HM(20, 0)}
CreateFrequencies == {2}
UpdateFrequencies == {3}
CreateTimings == {"with meals"}
CreateStocks == {NoInt, 1, 10}   \* total_stock given at creation
DosePerIntakes == {1, 2}
StockArgs == {-1, 0}
RefillArgs == {-2, 5}

-----------------------------------------------------------------------------
(* Documents                                                               *)

\* a Python dict time_slot -> bool is the set of its <<key, value>> items
DictGet(d, k) == <<k, TRUE>> \in d
DictPut(d, k, v) == (d \ {<<k, TRUE>>, <<k, FALSE>>}) \cup {<<k, v>>}

\* medication_data of create_medication
\* (lines 264-292): current_stock defaults to total_stock
MedDoc(user, frequency, timing, total, stock, dpi, sched, date) ==
    [absent |-> FALSE, user_id |-> user, frequency |-> frequency,
     timing |-> timing, total_stock |-> total,
     current_stock |-> IF stock = NoInt /\ total # NoInt THEN total ELSE stock,
     dose_per_intake |-> dpi,
     schedule_times |-> sched, doses_taken_today |-> {},
     doses_taken_date |-> date]

\* the ids a request can name: those of the medications created so far, and
\* an id that is never assigned
ReqIds == {id \in MedIds : ~meds[id].absent} \cup {UnknownId}

\* medications.find_one({"_id": medication_id, "user_id": user_id})
FindMed(id, user) ==
    IF ~meds[id].absent /\ meds[id].user_id = user THEN meds[id] ELSE NoDoc

\* enrich_medication: the daily reset logic and the schedule fallback;
\* the record is the in-memory dict, with the internal flags it carries
enrich_medication(med, day) ==
    LET stale == med.doses_taken_date # 0 /\ med.doses_taken_date # day
        sched == IF med.schedule_times = <<>> /\ med.frequency # 0
                 THEN med_generate_schedule_times(med.frequency)
                 ELSE med.schedule_times
    IN [absent |-> FALSE, user_id |-> med.user_id, frequency |-> med.frequency,
        timing |-> med.timing, total_stock |-> med.total_stock,
        current_stock |-> med.current_stock,
        dose_per_intake |-> med.dose_per_intake,
        schedule_times |-> sched,
        doses_taken_today |-> IF stale \/ med.doses_taken_date = 0
                              THEN {} ELSE med.doses_taken_today,
        doses_taken_date |-> day,
        needs_daily_reset |-> stale,
        previous_doses |-> IF stale THEN med.doses_taken_today ELSE {},
        previous_date |-> IF stale THEN med.doses_taken_date ELSE 0]

NoView == [absent |-> TRUE]

\* the dict a request returns: times is scheduled_times, doses the today-view
Fail(msg) == [success |-> FALSE, message |-> msg, medication |-> NoView,
              status |-> None, diff |-> 0, times |-> <<>>, doses |-> <<>>]
Ok(msg, view) == [success |-> TRUE, message |-> msg, medication |-> view,
                  status |-> None, diff |-> 0, times |-> <<>>, doses |-> <<>>]

\* get_medication(user_id, medication_id)
get_medication(user, id) ==
    IF FindMed(id, user).absent THEN Fail("Medication not found")
    ELSE Ok("", enrich_medication(FindMed(id, user), today))

-----------------------------------------------------------------------------
(* services/dose_history_service.py: the ledger                            *)

AbsTime(day, sec) == day * 86400 + sec

\* a ledger record whose late threshold is not strict
HistoryRecord_inclusive(user, med, date, slot, status, actual_time) ==
    [user_id |-> user, medication_id |-> med, date |-> date,
     time_slot |-> slot, status |-> status, actual_time |-> actual_time,
     was_late |-> status = "taken" /\ actual_time # NoTime
                  /\ actual_time >= AbsTime(date, slot * 60) + 30 * 60]

\* the record built by log_dose_event; actual_time is an absolute instant
HistoryRecord(user, med, date, slot, status, actual_time) ==
    [user_id |-> user, medication_id |-> med, date |-> date,
     time_slot |-> slot, status |-> status, actual_time |-> actual_time,
     was_late |-> status = "taken" /\ actual_time # NoTime
                  /\ actual_time > AbsTime(date, slot * 60) + 30 * 60]

\* a ledger write that inserts a new document on every call
log_dose_event_insert(h, user, med, date, slot, status, actual_time) ==
    Append(h, HistoryRecord(user, med, date, slot, status, actual_time))

\* history.update_one({medication_id, date, time_slot}, {"$set": record}, upsert=True)
log_dose_event(h, user, med, date, slot, status, actual_time) ==
    LET hits == {i \in DOMAIN h : h[i].medication_id = med /\ h[i].date = date
                                  /\ h[i].time_slot = slot}
        rec == HistoryRecord(user, med, date, slot, status, actual_time)
    IN IF hits = {} THEN Append(h, rec)
       ELSE LET first == CHOOSE i \in hits : \A j \in hits : i <= j
            IN [h EXCEPT ![first] = rec]

\* round(num / den * 100, 1) in tenths of a percent, den > 0.  num * 1000 / den
\* is half-way between two tenths only if 16 divides den, so for den < 16
\* the nearest tenth is unique and float rounding cannot change it
Pct10(num, den) == (2000 * num + den) \div (2 * den)

Count(h, rows, status) == Cardinality({i \in rows : h[i].status = status})

\* get_adherence_stats: start of the period
PeriodStart(period, day) ==
    IF period = "week" THEN day - 7
    ELSE IF period = "month" THEN day - 30
    ELSE day - 365

\* adherence statistics that report a period without entries as 0%
get_adherence_stats_zero(h, user, period, medication_id, day) ==
    LET rows == {i \in DOMAIN h :
                    /\ h[i].user_id = user
                    /\ h[i].date >= PeriodStart(period, day)
                    /\ (medication_id # None => h[i].medication_id = medication_id)}
        total == Cardinality(rows)
        taken == Count(h, rows, "taken")
        late == Cardinality({i \in rows : h[i].status = "taken" /\ h[i].was_late})
    IN [total_doses |-> total, taken |-> taken,
        missed |-> Count(h, rows, "missed"), late |-> late,
        skipped |-> Count(h, rows, "skipped"),
        adherence_percentage |-> IF total > 0 THEN Pct10(taken, total) ELSE 0,
        on_time_percentage |-> IF total > 0 THEN Pct10(taken - late, total) ELSE 0,
        by_date |-> [d \in {h[i].date : i \in rows} |->
                        LET on == {i \in rows : h[i].date = d} IN
                        [taken |-> Count(h, on, "taken"),
                         missed |-> Count(h, on, "missed"),
                         total |-> Cardinality(on)]]]

\* get_adherence_stats -> summary and by_date (by_medication is keyed by the
\* medication name, which the model does not carry)
get_adherence_stats(h, user, period, medication_id, day) ==
    LET rows == {i \in DOMAIN h :
                    /\ h[i].user_id = user
                    /\ h[i].date >= PeriodStart(period, day)
                    /\ (medication_id # None => h[i].medication_id = medication_id)}
        total == Cardinality(rows)
        taken == Count(h, rows, "taken")
        late == Cardinality({i \in rows : h[i].status = "taken" /\ h[i].was_late})
    IN [total_doses |-> total, taken |-> taken,
        missed |-> Count(h, rows, "missed"), late |-> late,
        skipped |-> Count(h, rows, "skipped"),
        adherence_percentage |-> IF total > 0 THEN Pct10(taken, total) ELSE 1000,
        on_time_percentage |-> IF total > 0 THEN Pct10(taken - late, total) ELSE 1000,
        by_date |-> [d \in {h[i].date : i \in rows} |->
                        LET on == {i \in rows : h[i].date = d} IN
                        [taken |-> Count(h, on, "taken"),
                         missed |-> Count(h, on, "missed"),
                         total |-> Cardinality(on)]]]

\* get_time_of_day_analysis lines 398-403: the periods in dict order
TimePeriods == <<"morning", "afternoon", "evening", "night">>

\* lines 412-420: the period of a time_slot, by its hour
period_key(time_slot) ==
    LET hour == Hour(time_slot) IN
    IF 6 <= hour /\ hour < 12 THEN "morning"
    ELSE IF 12 <= hour /\ hour < 18 THEN "afternoon"
    ELSE IF 18 <= hour /\ hour < 24 THEN "evening"
    ELSE "night"

\* lines 422-426: the counters of one period over the records found
PeriodData(h, rows, key) ==
    LET mine == {i \in rows : period_key(h[i].time_slot) = key} IN
    [period |-> key,
     total |-> Cardinality(mine),
     taken |-> Cardinality({i \in mine : h[i].status = "taken"}),
     missed |-> Cardinality({i \in mine : h[i].status = "missed"})]

\* lines 433-450: the loop over the periods; percentages in tenths
RECURSIVE TimeOfDayLoop(_, _, _, _, _, _)
TimeOfDayLoop(h, rows, i, results, worst_period, worst_miss_rate) ==
    IF i > Len(TimePeriods)
    THEN [time_analysis |-> results, worst_period |-> worst_period,
          worst_miss_rate |-> worst_miss_rate]
    ELSE LET data == PeriodData(h, rows, TimePeriods[i]) IN
         IF data.total > 0
         THEN LET adherence == Pct10(data.taken, data.total)
                  miss_rate == Pct10(data.missed, data.total)
                  item == [period |-> data.period, total |-> data.total,
                           taken |-> data.taken, missed |-> data.missed,
                           adherence_percentage |-> adherence,
                           miss_percentage |-> miss_rate]
              IN IF miss_rate > worst_miss_rate
                 THEN TimeOfDayLoop(h, rows, i + 1, Append(results, item),
                                    data.period, miss_rate)
                 ELSE TimeOfDayLoop(h, rows, i + 1, Append(results, item),
                                    worst_period, worst_miss_rate)
         ELSE TimeOfDayLoop(h, rows, i + 1, results, worst_period, worst_miss_rate)

\* get_time_of_day_analysis: the records of the user since the start date
get_time_of_day_analysis(h, user, period, day) ==
    LET rows == {i \in DOMAIN h : h[i].user_id = user
                                  /\ h[i].date >= PeriodStart(period, day)}
    IN TimeOfDayLoop(h, rows, 1, <<>>, None, 0)

RECURSIVE SortDesc(_)
SortDesc(S) ==
    IF S = {} THEN <<>>
    ELSE LET m == CHOOSE x \in S : \A y \in S : y <= x
         IN <<m>> \o SortDesc(S \ {m})

\* calculate_streak lines 261-280: $match, $group by date, $sort descending
daily_stats(h, user) ==
    LET rows == {i \in DOMAIN h : h[i].user_id = user}
        dates == SortDesc({h[i].date : i \in rows})
    IN [k \in DOMAIN dates |->
           LET on == {i \in rows : h[i].date = dates[k]} IN
           [date |-> dates[k], total |-> Cardinality(on),
            taken |-> Count(h, on, "taken"), missed |-> Count(h, on, "missed"),
            is_perfect |-> Count(h, on, "missed") = 0 /\ Count(h, on, "taken") > 0]]

\* lines 287-296, from index i on: -> <<current_streak, last_broken_date>>
RECURSIVE CurrentStreakLoop(_, _, _, _)
CurrentStreakLoop(ds, i, day, streak) ==
    IF i > Len(ds) THEN <<streak, 0>>
    ELSE IF ds[i].date = day /\ i = 1 THEN CurrentStreakLoop(ds, i + 1, day, streak)
    ELSE IF ds[i].is_perfect THEN CurrentStreakLoop(ds, i + 1, day, streak + 1)
    ELSE <<streak, ds[i].date>>

\* the loop of lines 287-296 without the skip of today
RECURSIVE CurrentStreakLoopToday(_, _, _, _)
CurrentStreakLoopToday(ds, i, day, streak) ==
    IF i > Len(ds) THEN <<streak, 0>>
    ELSE IF ds[i].is_perfect THEN CurrentStreakLoopToday(ds, i + 1, day, streak + 1)
    ELSE <<streak, ds[i].date>>

\* lines 299-307
RECURSIVE BestStreakLoop(_, _, _, _)
BestStreakLoop(ds, i, temp_streak, best_streak) ==
    IF i > Len(ds) THEN best_streak
    ELSE IF ds[i].is_perfect
         THEN BestStreakLoop(ds, i + 1, temp_streak + 1,
                             Max(best_streak, temp_streak + 1))
         ELSE BestStreakLoop(ds, i + 1, 0, best_streak)

\* a streak calculation that counts today's unfinished day
calculate_streak_today(h, user, day) ==
    LET ds == daily_stats(h, user)
        cur == CurrentStreakLoopToday(ds, 1, day, 0)
    IN [current_streak |-> cur[1], best_streak |-> BestStreakLoop(ds, 1, 0, 0),
        last_broken_date |-> cur[2]]

\* calculate_streak (last_broken_date 0 is None)
calculate_streak(h, user, day) ==
    LET ds == daily_stats(h, user)
        cur == CurrentStreakLoop(ds, 1, day, 0)
    IN [current_streak |-> cur[1], best_streak |-> BestStreakLoop(ds, 1, 0, 0),
        last_broken_date |-> cur[2]]

\* get_comparison_stats.get_period_stats(start, end): start <= date < end
get_period_stats(h, user, start, end) ==
    LET rows == {i \in DOMAIN h : h[i].user_id = user /\ h[i].date >= start
                                  /\ h[i].date < end}
        total == Cardinality(rows)
        taken == Count(h, rows, "taken")
    IN [start_date |-> start, end_date |-> end, total |-> total, taken |-> taken,
        missed |-> Count(h, rows, "missed"),
        adherence_percentage |-> IF total > 0 THEN Pct10(taken, total) ELSE 0]

\* get_comparison_stats; percentages and delta in tenths of a percent
get_comparison_stats(h, user, day) ==
    LET current_stats == get_period_stats(h, user, day - 7, day)
        previous_stats == get_period_stats(h, user, day - 14, day - 7)
        delta == IF previous_stats.adherence_percentage > 0
                 THEN current_stats.adherence_percentage
                      - previous_stats.adherence_percentage
                 ELSE 0
    IN [current_week |-> current_stats, previous_week |-> previous_stats,
        delta |-> delta,
        trend |-> IF delta > 50 THEN "improving"
                  ELSE IF delta < 0 - 50 THEN "declining" ELSE "stable"]

-----------------------------------------------------------------------------
(* Requests                                                                *)

IdleFrame ==
    [pc |-> "idle", op |-> None, user |-> None, med |-> None, slot |-> 0,
     taken |-> FALSE, amount |-> 0, dpi |-> 0, taken_at |-> NoTime,
     l_today |-> 0, l_now |-> 0, l_doses |-> {}, l_stock |-> NoInt,
     l_prev_date |-> 0, l_prev_doses |-> {}, l_sched |-> <<>>, l_idx |-> 0,
     l_existing |-> 0, l_status |-> None, l_diff |-> 0, l_logfail |-> FALSE,
     custom |-> FALSE, l_items |-> <<>>, freq |-> NoInt,
     result |-> Fail("")]

\* a new request takes the first free frame; limit is the number of requests
\* the behaviour may start
CanBegin(p) ==
    /\ proc[p].pc = "idle"
    /\ \A q \in Procs : ProcOrder[q] < ProcOrder[p] => proc[q].pc # "idle"
    /\ nops < limit

Begin(p, frame) ==
    /\ CanBegin(p)
    /\ nops' = nops + 1
    /\ proc' = [proc EXCEPT ![p] = frame]

Goto(p, frame) == proc' = [proc EXCEPT ![p] = frame]

Finish(p, res) ==
    proc' = [proc EXCEPT ![p] = [IdleFrame EXCEPT !.pc = "done",
                                    !.op = proc[p].op, !.user = proc[p].user,
                                    !.med = proc[p].med, !.slot = proc[p].slot,
                                    !.taken = proc[p].taken,
                                    !.amount = proc[p].amount,
                                    !.taken_at = proc[p].taken_at,
                                    !.l_existing = proc[p].l_existing,
                                    !.l_today = proc[p].l_today,
                                    !.l_prev_date = proc[p].l_prev_date,
                                    !.l_prev_doses = proc[p].l_prev_doses,
                                    !.l_sched = proc[p].l_sched,
                                    !.l_logfail = proc[p].l_logfail,
                                    !.result = res]]

\* the response has been delivered; the frame is free again
Return(p) ==
    /\ proc[p].pc = "done"
    /\ proc' = [proc EXCEPT ![p] = IdleFrame]
    /\ UNCHANGED <<schedules, today, now, meds, dose_logs, history, nops, limit, call, out>>

-----------------------------------------------------------------------------
(* Time                                                                    *)

Tick ==
    /\ \E t \in ClockTimes : t > now /\ now' = t
    /\ UNCHANGED <<schedules, today, meds, dose_logs, history, proc, nops, limit, call, out>>

NewDay ==
    /\ today < MaxDay
    /\ today' = today + 1
    /\ \E t \in ClockTimes : now' = t
    /\ UNCHANGED <<schedules, meds, dose_logs, history, proc, nops, limit, call, out>>

-----------------------------------------------------------------------------
(* create_medication                                                       *)

CreateMedication(p) ==
    \E u \in Users, id \in MedIds, f \in CreateFrequencies,
       t \in CreateTimings, s \in CreateStocks, d \in DosePerIntakes :
        /\ meds[id].absent
        /\ CanBegin(p)
        /\ nops' = nops + 1
        /\ meds' = [meds EXCEPT ![id] =
                       MedDoc(u, f, t, s, NoInt, d,
                              med_generate_schedule_times(f), today)]
        /\ proc' = [proc EXCEPT ![p] =
                       [IdleFrame EXCEPT !.pc = "done", !.op = "create",
                           !.user = u, !.med = id,
                           !.result = Ok("Medication added successfully",
                                         enrich_medication(meds'[id], today))]]
        /\ UNCHANGED <<schedules, today, now, dose_logs, history, limit, call, out>>

-----------------------------------------------------------------------------
(* medication_service.get_medication as a request                          *)

GetMedication(p) ==
    \E u \in Users, id \in ReqIds :
        /\ CanBegin(p)
        /\ nops' = nops + 1
        /\ LET res == get_medication(u, id) IN
           proc' = [proc EXCEPT ![p] =
                       [IdleFrame EXCEPT !.pc = "done", !.op = "get",
                           !.user = u, !.med = id, !.l_today = today,
                           !.l_prev_date =
                               IF res.success THEN res.medication.previous_date ELSE 0,
                           !.l_prev_doses =
                               IF res.success THEN res.medication.previous_doses ELSE {},
                           !.l_sched =
                               IF res.success THEN res.medication.schedule_times ELSE <<>>,
                           !.result = res]]
        /\ UNCHANGED <<schedules, today, now, meds, dose_logs, history, limit, call, out>>

-----------------------------------------------------------------------------
(* medication_service.mark_dose_taken (the medication mark-dose path)      *)

MarkStart(p) ==
    \E u \in Users, id \in ReqIds, s \in SlotArgs, t \in BOOLEAN :
        /\ Begin(p, [IdleFrame EXCEPT !.pc = "mk_get", !.op = "mark",
                        !.user = u, !.med = id, !.slot = s, !.taken = t])
        /\ UNCHANGED <<schedules, today, now, meds, dose_logs, history, limit, call, out>>

\* lines 656-688: read the medication, compute the new map and the new stock
StockAfterMark(stock, dpi, taken, was_taken) ==
    IF stock = NoInt THEN NoInt
    ELSE IF taken /\ ~was_taken THEN Max(0, stock - dpi)
    ELSE IF ~taken /\ was_taken THEN stock + dpi
    ELSE stock

MarkGet(p) ==
    LET f == proc[p]
        res == get_medication(f.user, f.med)
        cur == res.medication
        doses == IF cur.doses_taken_date # today THEN {} ELSE cur.doses_taken_today
        was_taken == DictGet(doses, f.slot)
    IN /\ f.pc = "mk_get"
       /\ IF ~res.success THEN Finish(p, res)
          ELSE Goto(p, [f EXCEPT !.pc = "mk_update", !.l_today = today,
                           !.l_doses = DictPut(doses, f.slot, f.taken),
                           !.l_stock = StockAfterMark(cur.current_stock,
                                           cur.dose_per_intake, f.taken, was_taken),
                           !.l_prev_date = cur.previous_date,
                           !.l_prev_doses = cur.previous_doses,
                           !.l_sched = cur.schedule_times])
       /\ UNCHANGED <<schedules, today, now, meds, dose_logs, history, nops, limit, call, out>>

\* lines 690-708: one $set of the map, the date stamp and the stock
MarkUpdate(p) ==
    LET f == proc[p] IN
    /\ f.pc = "mk_update"
    /\ IF FindMed(f.med, f.user).absent
       THEN /\ Finish(p, Fail("Medication not found or not owned by you"))
            /\ UNCHANGED meds
       ELSE /\ meds' = [meds EXCEPT ![f.med] =
                   [@ EXCEPT !.doses_taken_today = f.l_doses,
                             !.doses_taken_date = f.l_today,
                             !.current_stock = IF f.l_stock # NoInt
                                               THEN f.l_stock ELSE @]]
            /\ Goto(p, [f EXCEPT !.pc = "mk_log"])
    /\ UNCHANGED <<schedules, today, now, dose_logs, history, nops, limit, call, out>>

\* lines 710-725: the ledger write; an exception of the write is swallowed
MarkLog(p) ==
    LET f == proc[p] IN
    /\ f.pc = "mk_log"
    /\ \/ /\ history' = log_dose_event(history, f.user, f.med, f.l_today, f.slot,
                            IF f.taken THEN "taken" ELSE "missed",
                            IF f.taken THEN AbsTime(today, now) ELSE NoTime)
          /\ Goto(p, [f EXCEPT !.pc = "mk_fetch"])
       \/ /\ UNCHANGED history
          /\ Goto(p, [f EXCEPT !.pc = "mk_fetch", !.l_logfail = TRUE])
    /\ UNCHANGED <<schedules, today, now, meds, dose_logs, nops, limit, call, out>>

\* lines 728-732: fetch and return the updated medication, with the message
\* "Dose at <slot> marked as taken / not taken"
MarkFetch(p) ==
    LET f == proc[p]
        updated == get_medication(f.user, f.med)
    IN
    /\ f.pc = "mk_fetch"
    /\ Finish(p, IF updated.success
                 THEN [updated EXCEPT !.message = "Dose at slot marked"]
                 ELSE updated)
    /\ UNCHANGED <<schedules, today, now, meds, dose_logs, history, nops, limit, call, out>>

-----------------------------------------------------------------------------
(* medication_service.get_user_medications (list, with the daily reset)    *)

\* the dict appended to meds_list: the internal flags are deleted
ListView(e) == [e EXCEPT !.needs_daily_reset = FALSE, !.previous_doses = {},
                         !.previous_date = 0]

ListStart(p) ==
    \E u \in Users :
        /\ Begin(p, [IdleFrame EXCEPT !.pc = "ls_find", !.op = "list", !.user = u])
        /\ UNCHANGED <<schedules, today, now, meds, dose_logs, history, limit, call, out>>

\* lines 313-337: the cursor yields the user's medication, enrich_medication
ListFind(p) ==
    LET f == proc[p]
        ids == {id \in MedIds : ~meds[id].absent /\ meds[id].user_id = f.user}
    IN /\ f.pc = "ls_find"
       /\ IF ids = {} THEN Finish(p, Ok("", NoView))
          ELSE LET id == CHOOSE i \in ids : TRUE
                   e == enrich_medication(meds[id], today)
               IN IF e.needs_daily_reset
                  THEN Goto(p, [f EXCEPT !.pc = "ls_persist", !.med = id,
                                   !.l_today = e.doses_taken_date,
                                   !.l_prev_date = e.previous_date,
                                   !.l_prev_doses = e.previous_doses,
                                   !.l_sched = e.schedule_times,
                                   !.result = Ok("", ListView(e))])
                  ELSE Finish(p, Ok("", ListView(e)))
       /\ UNCHANGED <<schedules, today, now, meds, dose_logs, history, nops, limit, call, out>>

\* lines 339-353: persist the reset, then decide whether to log the old day
ListPersist(p) ==
    LET f == proc[p] IN
    /\ f.pc = "ls_persist"
    /\ meds' = [meds EXCEPT ![f.med] =
                   IF @.absent THEN @
                   ELSE [@ EXCEPT !.doses_taken_today = {},
                                  !.doses_taken_date = f.l_today]]
    /\ IF f.l_prev_date # 0 /\ f.l_sched # <<>>
       THEN Goto(p, [f EXCEPT !.pc = "ls_log", !.l_idx = 1])
       ELSE Finish(p, f.result)
    /\ UNCHANGED <<schedules, today, now, dose_logs, history, nops, limit, call, out>>

\* lines 357-367: one log_dose_event per slot of the schedule; an exception
\* of the write is not an ImportError and ends the request
ListLog(p) ==
    LET f == proc[p]
        time_slot == f.l_sched[f.l_idx]
    IN /\ f.pc = "ls_log"
       /\ \/ /\ history' = log_dose_event(history, f.user, f.med, f.l_prev_date,
                               time_slot,
                               IF DictGet(f.l_prev_doses, time_slot)
                               THEN "taken" ELSE "missed",
                               NoTime)
             /\ IF f.l_idx < Len(f.l_sched)
                THEN Goto(p, [f EXCEPT !.l_idx = f.l_idx + 1])
                ELSE Finish(p, f.result)
          \/ /\ UNCHANGED history
             /\ Finish(p, Fail("Internal Server Error"))
       /\ UNCHANGED <<schedules, today, now, meds, dose_logs, nops, limit, call, out>>

-----------------------------------------------------------------------------
(* dose_service.mark_dose_taken (the dose take path)                       *)

TakenAtArgs == {NoTime}

DoseLogMatches(med, user, date, slot) ==
    {i \in DOMAIN dose_logs : dose_logs[i].medication_id = med
                              /\ dose_logs[i].user_id = user
                              /\ dose_logs[i].date = date
                              /\ dose_logs[i].scheduled_time = slot}

\* lines 286-294: today, now, the default taken_at and the status
TakeStart(p) ==
    \E u \in Users, id \in ReqIds, s \in SlotArgs, ta \in TakenAtArgs :
        LET taken_at == IF ta = NoTime THEN now \div 60 ELSE ta
            st == calculate_dose_status(s, now, taken_at)
        IN /\ Begin(p, [IdleFrame EXCEPT !.pc = "tk_find", !.op = "take",
                           !.user = u, !.med = id, !.slot = s,
                           !.taken = TRUE, !.taken_at = taken_at,
                           !.l_today = today, !.l_now = now,
                           !.l_status = st.status, !.l_diff = st.diff])
           /\ UNCHANGED <<schedules, today, now, meds, dose_logs, history, limit, call, out>>

\* lines 297-302: logs.find_one
TakeFind(p) ==
    LET f == proc[p]
        hits == DoseLogMatches(f.med, f.user, f.l_today, f.slot)
    IN /\ f.pc = "tk_find"
       /\ Goto(p, [f EXCEPT !.pc = "tk_write",
                      !.l_existing = IF hits = {} THEN 0
                                     ELSE CHOOSE i \in hits : \A j \in hits : i <= j])
       /\ UNCHANGED <<schedules, today, now, meds, dose_logs, history, nops, limit, call, out>>

\* lines 304-325: update the log found, or insert a new one
TakeWrite(p) ==
    LET f == proc[p] IN
    /\ f.pc = "tk_write"
    /\ IF f.l_existing # 0
       THEN dose_logs' = [dose_logs EXCEPT ![f.l_existing] =
                             [@ EXCEPT !.status = f.l_status,
                                       !.taken_at = f.taken_at]]
       ELSE dose_logs' = Append(dose_logs,
                             [medication_id |-> f.med, user_id |-> f.user,
                              date |-> f.l_today, scheduled_time |-> f.slot,
                              status |-> f.l_status, taken_at |-> f.taken_at])
    /\ Goto(p, [f EXCEPT !.pc = "tk_med"])
    /\ UNCHANGED <<schedules, today, now, meds, history, nops, limit, call, out>>

TakeResult(f) ==
    [success |-> TRUE, message |-> "Dose marked", medication |-> NoView,
     status |-> f.l_status, diff |-> f.l_diff, times |-> <<>>, doses |-> <<>>]

\* lines 328-335: read the medication and compute the decremented stock
TakeMed(p) ==
    LET f == proc[p]
        med == FindMed(f.med, f.user)
    IN /\ f.pc = "tk_med"
       /\ IF ~med.absent /\ med.current_stock # NoInt
          THEN Goto(p, [f EXCEPT !.pc = "tk_upd",
                           !.l_stock = Max(0, med.current_stock - med.dose_per_intake)])
          ELSE Finish(p, TakeResult(f))
       /\ UNCHANGED <<schedules, today, now, meds, dose_logs, history, nops, limit, call, out>>

\* lines 336-348: write the stock and return
TakeUpd(p) ==
    LET f == proc[p] IN
    /\ f.pc = "tk_upd"
    /\ meds' = [meds EXCEPT ![f.med] =
                   IF @.absent THEN @ ELSE [@ EXCEPT !.current_stock = f.l_stock]]
    /\ Finish(p, TakeResult(f))
    /\ UNCHANGED <<schedules, today, now, dose_logs, history, nops, limit, call, out>>

-----------------------------------------------------------------------------
(* refill_stock, update_stock and update_medication                        *)

RefillStart(p) ==
    \E u \in Users, id \in ReqIds, n \in RefillArgs :
        /\ Begin(p, [IdleFrame EXCEPT !.pc = "rf_get", !.op = "refill",
                        !.user = u, !.med = id, !.amount = n])
        /\ UNCHANGED <<schedules, today, now, meds, dose_logs, history, limit, call, out>>

\* lines 551-556: (current_stock or 0) + refill_amount
RefillGet(p) ==
    LET f == proc[p]
        res == get_medication(f.user, f.med)
        cur == res.medication.current_stock
    IN /\ f.pc = "rf_get"
       /\ IF ~res.success THEN Finish(p, res)
          ELSE Goto(p, [f EXCEPT !.pc = "up_update",
                           !.l_stock = (IF cur = NoInt THEN 0 ELSE cur) + f.amount,
                           !.dpi = NoInt])
       /\ UNCHANGED <<schedules, today, now, meds, dose_logs, history, nops, limit, call, out>>

\* update_stock(current_stock) is update_medication(current_stock=...)
UpdateStockStart(p) ==
    \E u \in Users, id \in ReqIds, s \in StockArgs :
        /\ Begin(p, [IdleFrame EXCEPT !.pc = "up_update", !.op = "update_stock",
                        !.user = u, !.med = id, !.l_stock = s, !.dpi = NoInt])
        /\ UNCHANGED <<schedules, today, now, meds, dose_logs, history, limit, call, out>>

\* update_medication(dose_per_intake=...)
UpdateStart(p) ==
    \E u \in Users, id \in ReqIds, d \in DosePerIntakes :
        /\ Begin(p, [IdleFrame EXCEPT !.pc = "up_update", !.op = "update",
                        !.user = u, !.med = id, !.l_stock = NoInt, !.dpi = d])
        /\ UNCHANGED <<schedules, today, now, meds, dose_logs, history, limit, call, out>>

\* update_medication(frequency=...), the PUT of the medication with a new
\* frequency
UpdateFrequencyStart(p) ==
    \E u \in Users, id \in ReqIds, fr \in UpdateFrequencies :
        /\ Begin(p, [IdleFrame EXCEPT !.pc = "up_update", !.op = "update_freq",
                        !.user = u, !.med = id, !.l_stock = NoInt, !.dpi = NoInt,
                        !.freq = fr])
        /\ UNCHANGED <<schedules, today, now, meds, dose_logs, history, limit, call, out>>

\* update_medication lines 470-537: $set of the fields that are not None
UpdateWrite(p) ==
    LET f == proc[p] IN
    /\ f.pc = "up_update"
    /\ IF FindMed(f.med, f.user).absent
       THEN /\ Finish(p, Fail("Medication not found or not owned by you"))
            /\ UNCHANGED meds
       ELSE /\ meds' = [meds EXCEPT ![f.med] =
                   [@ EXCEPT !.current_stock = IF f.l_stock # NoInt
                                               THEN f.l_stock ELSE @,
                             !.dose_per_intake = IF f.dpi # NoInt
                                                 THEN f.dpi ELSE @,
                             !.frequency = IF f.freq # NoInt
                                           THEN f.freq ELSE @]]
            /\ Goto(p, [f EXCEPT !.pc = "up_fetch"])
    /\ UNCHANGED <<schedules, today, now, dose_logs, history, nops, limit, call, out>>

\* update_medication line 540: return await get_medication(...)
UpdateFetch(p) ==
    LET f == proc[p] IN
    /\ f.pc = "up_fetch"
    /\ Finish(p, get_medication(f.user, f.med))
    /\ UNCHANGED <<schedules, today, now, meds, dose_logs, history, nops, limit, call, out>>

-----------------------------------------------------------------------------
(* dose_service: schedules and the today-view                              *)

MaxSchedOps == 3        \* requests started in one behaviour of the schedule requests
SchedArgs == {<<HM(9, 0)>>}     \* scheduled_times given to update_schedule

ScheduleMatches(med, user) ==
    {i \in DOMAIN schedules : schedules[i].medication_id = med
                              /\ schedules[i].user_id = user}

ScheduleResult(times) ==
    [success |-> TRUE, message |-> "", medication |-> NoView,
     status |-> None, diff |-> 0, times |-> times, doses |-> <<>>]

GetScheduleStart(p) ==
    \E u \in Users, id \in ReqIds :
        /\ Begin(p, [IdleFrame EXCEPT !.pc = "gs_find", !.op = "get_schedule",
                        !.user = u, !.med = id])
        /\ UNCHANGED <<schedules, today, now, meds, dose_logs, history, limit, call, out>>

\* get_schedule lines 143-148 and 170-180: schedules.find_one; the second
\* read of an existing schedule's medication only supplies its name
GetScheduleFind(p) ==
    LET f == proc[p]
        hits == ScheduleMatches(f.med, f.user)
    IN /\ f.pc = "gs_find"
       /\ IF hits # {}
          THEN Finish(p, ScheduleResult(
                   schedules[CHOOSE i \in hits : \A j \in hits : i <= j].scheduled_times))
          ELSE Goto(p, [f EXCEPT !.pc = "gs_med"])
       /\ UNCHANGED <<schedules, today, now, meds, dose_logs, history, nops, limit, call, out>>

\* lines 150-168: medications.find_one, generate the default schedule
GetScheduleMed(p) ==
    LET f == proc[p]
        med == FindMed(f.med, f.user)
    IN /\ f.pc = "gs_med"
       /\ IF med.absent THEN Finish(p, Fail("Medication not found"))
          ELSE Goto(p, [f EXCEPT !.pc = "cs_find", !.custom = FALSE,
                           !.l_sched = generate_schedule_times(med.frequency, med.timing)])
       /\ UNCHANGED <<schedules, today, now, meds, dose_logs, history, nops, limit, call, out>>

\* update_schedule is create_or_update_schedule(..., is_custom=True); the
\* router rejects an empty scheduled_times
UpdateScheduleStart(p) ==
    \E u \in Users, id \in ReqIds, times \in SchedArgs :
        /\ Begin(p, [IdleFrame EXCEPT !.pc = "cs_find", !.op = "put_schedule",
                        !.user = u, !.med = id, !.custom = TRUE, !.l_sched = times])
        /\ UNCHANGED <<schedules, today, now, meds, dose_logs, history, limit, call, out>>

\* create_or_update_schedule lines 103-106: existing = schedules.find_one
CreateScheduleFind(p) ==
    LET f == proc[p]
        hits == ScheduleMatches(f.med, f.user)
    IN /\ f.pc = "cs_find"
       /\ Goto(p, [f EXCEPT !.pc = "cs_write",
                      !.l_existing = IF hits = {} THEN 0
                                     ELSE CHOOSE i \in hits : \A j \in hits : i <= j])
       /\ UNCHANGED <<schedules, today, now, meds, dose_logs, history, nops, limit, call, out>>

\* get_today_doses lines 259-273: doses.sort(key=scheduled_time), stable
RECURSIVE SortDoses(_)
SortDoses(items) ==
    IF items = <<>> THEN <<>>
    ELSE LET k == CHOOSE i \in DOMAIN items :
                    /\ \A j \in DOMAIN items :
                          items[i].scheduled_time <= items[j].scheduled_time
                    /\ \A j \in 1..(i - 1) :
                          items[j].scheduled_time # items[i].scheduled_time
         IN <<items[k]>>
            \o SortDoses([j \in 1..(Len(items) - 1) |->
                              IF j < k THEN items[j] ELSE items[j + 1]])

TodayResult(items) ==
    [success |-> TRUE, message |-> "", medication |-> NoView,
     status |-> None, diff |-> 0, times |-> <<>>, doses |-> SortDoses(items)]

\* the today-view goes on to the dose logs of the scheduled times
TodayDoses(p, f, times) ==
    IF times = <<>> THEN Finish(p, TodayResult(<<>>))
    ELSE Goto(p, [f EXCEPT !.pc = "td_logs", !.l_sched = times, !.l_idx = 1,
                     !.l_items = <<>>])

\* lines 108-135: update the schedule found, or insert a new one
CreateScheduleWrite(p) ==
    LET f == proc[p] IN
    /\ f.pc = "cs_write"
    /\ IF f.l_existing # 0
       THEN schedules' = [schedules EXCEPT ![f.l_existing] =
                             [@ EXCEPT !.scheduled_times = f.l_sched,
                                       !.is_custom = f.custom]]
       ELSE schedules' = Append(schedules,
                             [medication_id |-> f.med, user_id |-> f.user,
                              scheduled_times |-> f.l_sched, is_custom |-> f.custom])
    /\ IF f.op = "today" THEN TodayDoses(p, f, f.l_sched)
       ELSE Finish(p, ScheduleResult(f.l_sched))
    /\ UNCHANGED <<today, now, meds, dose_logs, history, nops, limit, call, out>>

\* get_today_doses lines 189-190: today and now are read once
TodayStart(p) ==
    \E u \in Users :
        /\ Begin(p, [IdleFrame EXCEPT !.pc = "td_meds", !.op = "today", !.user = u,
                        !.l_today = today, !.l_now = now])
        /\ UNCHANGED <<schedules, today, now, meds, dose_logs, history, limit, call, out>>

\* lines 199-203: the cursor yields the user's medication
TodayMeds(p) ==
    LET f == proc[p]
        ids == {id \in MedIds : ~meds[id].absent /\ meds[id].user_id = f.user}
    IN /\ f.pc = "td_meds"
       /\ IF ids = {} THEN Finish(p, TodayResult(<<>>))
          ELSE LET id == CHOOSE i \in ids : TRUE IN
               Goto(p, [f EXCEPT !.pc = "td_find", !.med = id,
                           !.l_sched = generate_schedule_times(meds[id].frequency,
                                                               meds[id].timing)])
       /\ UNCHANGED <<schedules, today, now, meds, dose_logs, history, nops, limit, call, out>>

\* lines 206-216: the schedule of the medication, or the generated default
TodayFind(p) ==
    LET f == proc[p]
        hits == ScheduleMatches(f.med, f.user)
    IN /\ f.pc = "td_find"
       /\ IF hits = {} THEN Goto(p, [f EXCEPT !.pc = "cs_find", !.custom = FALSE])
          ELSE TodayDoses(p, f,
                   schedules[CHOOSE i \in hits : \A j \in hits : i <= j].scheduled_times)
       /\ UNCHANGED <<schedules, today, now, meds, dose_logs, history, nops, limit, call, out>>

\* lines 219-257: one logs.find_one and one dose item per scheduled time
TodayLog(p) ==
    LET f == proc[p]
        scheduled_time == f.l_sched[f.l_idx]
        hits == DoseLogMatches(f.med, f.user, f.l_today, scheduled_time)
        taken_at == IF hits = {} THEN NoTime
                    ELSE dose_logs[CHOOSE i \in hits : \A j \in hits : i <= j].taken_at
        st == calculate_dose_status(scheduled_time, f.l_now, taken_at)
        items == Append(f.l_items,
                        [medication_id |-> f.med, scheduled_time |-> scheduled_time,
                         status |-> st.status, taken_at |-> taken_at,
                         can_take |-> st.status \in {"available", "pending"}])
    IN /\ f.pc = "td_logs"
       /\ IF f.l_idx < Len(f.l_sched)
          THEN Goto(p, [f EXCEPT !.l_idx = f.l_idx + 1, !.l_items = items])
          ELSE Finish(p, TodayResult(items))
       /\ UNCHANGED <<schedules, today, now, meds, dose_logs, history, nops, limit, call, out>>

-----------------------------------------------------------------------------
(* The system                                                              *)

NoCall == [fn |-> "none", f |-> 0, t |-> None, s |-> 0, n |-> 0, ta |-> NoTime]

SysInit ==
    /\ today = 1
    /\ now = HMS(8, 10, 0)
    /\ meds = [id \in AllIds |-> NoDoc]
    /\ dose_logs = <<>>
    /\ schedules = <<>>
    /\ history = <<>>
    /\ proc = [p \in Procs |-> IdleFrame]
    /\ nops = 0

\* the steps of the requests on one medication's live state
Step(p) ==
        \/ CreateMedication(p)
        \/ GetMedication(p)
        \/ MarkStart(p) \/ MarkGet(p) \/ MarkUpdate(p) \/ MarkLog(p) \/ MarkFetch(p)
        \/ TakeStart(p) \/ TakeFind(p) \/ TakeWrite(p) \/ TakeMed(p) \/ TakeUpd(p)
        \/ RefillStart(p) \/ RefillGet(p)
        \/ UpdateStockStart(p) \/ UpdateStart(p) \/ UpdateWrite(p) \/ UpdateFetch(p)
        \/ Return(p)

\* the steps of the list request, which carries the daily reset
ListStep(p) == ListStart(p) \/ ListFind(p) \/ ListPersist(p) \/ ListLog(p)

\* the steps of the schedule requests and of the today-view
SchedStep(p) ==
        \/ GetScheduleStart(p) \/ GetScheduleFind(p) \/ GetScheduleMed(p)
        \/ UpdateScheduleStart(p)
        \/ CreateScheduleFind(p) \/ CreateScheduleWrite(p)
        \/ TodayStart(p) \/ TodayMeds(p) \/ TodayFind(p) \/ TodayLog(p)

\* one request at a time (only the first frame is used), over several days
Init == SysInit /\ limit = MaxSeqOps /\ call = NoCall /\ out = NoResult

Next == Tick \/ NewDay \/ Step("p1") \/ ListStep("p1")

Spec == Init /\ [][Next]_vars

\* requests that overlap within one day: two frames, the steps of their
\* requests interleave at every await
ConcInit == SysInit /\ limit = MaxOps /\ call = NoCall /\ out = NoResult

ConcNext == \E p \in Procs : Step(p)

SpecConc == ConcInit /\ [][ConcNext]_vars

\* schedule requests that overlap within one day
SchedInit == SysInit /\ limit = MaxSchedOps /\ call = NoCall /\ out = NoResult

SchedNext == \E p \in Procs : CreateMedication(p) \/ SchedStep(p) \/ Return(p)

SpecSched == SchedInit /\ [][SchedNext]_vars

\* one request at a time within one day, over both paths: the requests on
\* the medication, the change of its frequency, the schedule requests and
\* the today-view
MaxViewOps == 3         \* requests started in one behaviour of both paths

ViewInit == SysInit /\ limit = MaxViewOps /\ call = NoCall /\ out = NoResult

ViewNext == Step("p1") \/ UpdateFrequencyStart("p1") \/ SchedStep("p1")

SpecView == ViewInit /\ [][ViewNext]_vars

-----------------------------------------------------------------------------
(* Pure functions under bounded inputs                                     *)

MaxFreq == 8            \* largest frequency given to the generators
EvalMargin == 90        \* seconds examined on each side of a window boundary
TakenMargin == 2        \* minutes examined on each side of a taken-window boundary
MaxStock == 31          \* largest current_stock given to the stock functions

GenFrequencies == (0 - 1)..MaxFreq
GenTimings == DOMAIN TIMING_PRESETS
              \cup {None, "", "with meals", "before breakfast", "Twice daily"}
EvalSlots == {HM(0, 20), HM(8, 0), HM(22, 30)}
EvalBoundaries == {0 - EARLY_WINDOW, 0, ON_TIME_WINDOW, MISSED_THRESHOLD}
EvalOffsets == {b * 60 + e : b \in EvalBoundaries, e \in (0 - EvalMargin)..EvalMargin}

\* evaluate with a taken_at: taken_at around the window boundaries of the slot
TakenOffsets == {b + e : b \in {0 - EARLY_WINDOW, 0, ON_TIME_WINDOW},
                         e \in (0 - TakenMargin)..TakenMargin}
EvalNows == {0, HMS(8, 10, 0), HMS(23, 59, 59)}

\* the stock functions: s is current_stock, n is dose_per_intake
StockInputs == {NoInt} \cup ((0 - 1)..MaxStock)
StatusFrequencies == (0 - 1)..2
StatusDoses == 0..2

\* log_dose_event: f is the date, t the status, s the time_slot, n the
\* actual_time (an absolute instant, seconds after the slot in LateOffsets)
LateOffsets == {0 - 60, 0, 30 * 60 - 1, 30 * 60, 30 * 60 + 1, 60 * 60}
LogStatuses == {"taken", "missed", "skipped"}

\* mark and un-mark: s is current_stock, n is dose_per_intake
MaxDose == 3            \* largest dose_per_intake given to the stock arithmetic
RoundTripStocks == 0..(MaxDose + 1)

PureCalls ==
    [fn : {"generate"}, f : GenFrequencies, t : GenTimings,
     s : {0}, n : {0}, ta : {NoTime}]
    \cup [fn : {"med_generate"}, f : GenFrequencies, t : {None},
          s : {0}, n : {0}, ta : {NoTime}]
    \cup {c \in [fn : {"evaluate"}, f : {0}, t : {None}, s : EvalSlots,
                 n : {s * 60 + d : s \in EvalSlots, d \in EvalOffsets},
                 ta : {NoTime}] :
            c.n \in 0..86399 /\ (c.n - c.s * 60) \in EvalOffsets}
    \cup {c \in [fn : {"evaluate"}, f : {0}, t : {None}, s : EvalSlots,
                 n : EvalNows,
                 ta : {s + d : s \in EvalSlots, d \in TakenOffsets}] :
            c.ta \in 0..1439 /\ (c.ta - c.s) \in TakenOffsets}
    \cup [fn : {"stock_status"}, f : StatusFrequencies, t : {None},
          s : StockInputs, n : StatusDoses, ta : {NoTime}]
    \cup {c \in [fn : {"log_event"}, f : {1, 2}, t : LogStatuses, s : EvalSlots,
                 n : {NoTime} \cup {AbsTime(d, sl * 60 + o) :
                                       d \in {1, 2}, sl \in EvalSlots, o \in LateOffsets},
                 ta : {NoTime}] :
            c.n = NoTime \/ (c.n - AbsTime(c.f, c.s * 60)) \in LateOffsets}
    \cup [fn : {"mark_unmark"}, f : {0}, t : {None}, s : RoundTripStocks,
          n : 1..MaxDose, ta : {NoTime}]

PureInit == SysInit /\ limit = 0 /\ call \in PureCalls /\ out = NoResult

ApplyGenerate ==
    /\ call.fn = "generate" /\ out = NoResult
    /\ out' = [fn |-> "generate", times |-> generate_schedule_times(call.f, call.t)]
    /\ UNCHANGED <<schedules, today, now, meds, dose_logs, history, proc, nops, limit, call>>

ApplyMedGenerate ==
    /\ call.fn = "med_generate" /\ out = NoResult
    /\ out' = [fn |-> "med_generate", times |-> med_generate_schedule_times(call.f)]
    /\ UNCHANGED <<schedules, today, now, meds, dose_logs, history, proc, nops, limit, call>>

ApplyEvaluate ==
    /\ call.fn = "evaluate" /\ out = NoResult
    /\ out' = [fn |-> "evaluate",
               res |-> calculate_dose_status(call.s, call.n, call.ta)]
    /\ UNCHANGED <<schedules, today, now, meds, dose_logs, history, proc, nops, limit, call>>

\* enrich_medication lines 190-206: days_remaining and stock_status
ApplyStockStatus ==
    /\ call.fn = "stock_status" /\ out = NoResult
    /\ out' = [fn |-> "stock_status",
               days |-> calculate_stock_days_remaining(call.s, call.f, call.n),
               status |-> calculate_stock_status(call.s, call.s, call.f, call.n)]
    /\ UNCHANGED <<schedules, today, now, meds, dose_logs, history, proc, nops, limit, call>>

\* log_dose_event into an empty ledger (fresh) and over an entry of the same
\* key that was logged as taken an hour late (over)
ApplyLogEvent ==
    /\ call.fn = "log_event" /\ out = NoResult
    /\ out' = [fn |-> "log_event",
               fresh |-> log_dose_event(<<>>, "u1", "m1", call.f, call.s, call.t, call.n),
               over |-> log_dose_event(
                            <<HistoryRecord("u1", "m1", call.f, call.s, "taken",
                                            AbsTime(call.f, call.s * 60 + 60 * 60))>>,
                            "u1", "m1", call.f, call.s, call.t, call.n)]
    /\ UNCHANGED <<schedules, today, now, meds, dose_logs, history, proc, nops, limit, call>>

\* mark_dose_taken lines 672-688: the stock after marking a slot that is not
\* taken, after un-marking it again, and after un-marking a slot not taken
ApplyMarkUnmark ==
    /\ call.fn = "mark_unmark" /\ out = NoResult
    /\ out' = [fn |-> "mark_unmark",
               marked |-> StockAfterMark(call.s, call.n, TRUE, FALSE),
               unmarked |-> StockAfterMark(StockAfterMark(call.s, call.n, TRUE, FALSE),
                                           call.n, FALSE, TRUE),
               unmark_only |-> StockAfterMark(call.s, call.n, FALSE, FALSE)]
    /\ UNCHANGED <<schedules, today, now, meds, dose_logs, history, proc, nops, limit, call>>

PureNext ==
    \/ ApplyGenerate \/ ApplyMedGenerate \/ ApplyEvaluate \/ ApplyStockStatus
    \/ ApplyLogEvent \/ ApplyMarkUnmark

SpecPure == PureInit /\ [][PureNext]_vars

-----------------------------------------------------------------------------
(* The ledger statistics under bounded ledger contents                     *)

StatToday == 40         \* the day of the statistics calls
StreakDays == 6         \* days before today covered by the streak ledgers

StatUsers == {"u1", "u2"}
StatMeds == {"m1", "m2"}

\* the entries of one day: rows [user, med, slot, status, late]
Row(u, m, sl, st, late) == [user |-> u, med |-> m, slot |-> sl, status |-> st, late |-> late]
RowTaken == Row("u1", "m1", HM(8, 0), "taken", FALSE)
RowLate == Row("u1", "m1", HM(8, 0), "taken", TRUE)
RowMissed == Row("u1", "m1", HM(8, 0), "missed", FALSE)
RowMissedEvening == Row("u1", "m1", HM(20, 0), "missed", FALSE)
RowMissedOtherMed == Row("u1", "m2", HM(8, 0), "missed", FALSE)
RowMissedOtherUser == Row("u2", "m2", HM(20, 0), "missed", FALSE)

RowAt(h, m, st) == Row("u1", "m1", HM(h, m), st, FALSE)

\* entries at the first and last minute of each time period
TimeOfDayPatterns ==
    {<<>>, <<RowAt(6, 0, "taken")>>, <<RowAt(11, 59, "missed")>>,
     <<RowAt(12, 0, "missed"), RowAt(17, 59, "taken")>>,
     <<RowAt(18, 0, "taken"), RowAt(23, 59, "skipped")>>,
     <<RowAt(0, 0, "missed")>>, <<RowAt(5, 59, "taken"), RowMissedOtherUser>>}

StatPatterns(fn) ==
    IF fn = "time_of_day" THEN TimeOfDayPatterns
    ELSE IF fn = "adherence"
    THEN {<<>>, <<RowTaken>>, <<RowLate>>, <<RowMissed>>,
          <<RowTaken, RowMissedOtherMed>>, <<RowMissedOtherUser>>}
    ELSE {<<>>, <<RowTaken>>, <<RowMissed>>, <<RowTaken, RowMissedEvening>>}

\* the dates that carry entries: around the ends of the periods of each call
StatDates(fn) ==
    IF fn = "streak" THEN (StatToday - StreakDays)..StatToday
    ELSE IF fn = "time_of_day" THEN {StatToday - 8, StatToday - 7, StatToday}
    ELSE IF fn = "adherence"
    THEN {StatToday - 31, StatToday - 30, StatToday - 8, StatToday - 7, StatToday}
    ELSE {StatToday - 15, StatToday - 14, StatToday - 8, StatToday - 7,
          StatToday - 1, StatToday}

\* the ledger log_dose_event leaves after the entries of pat were logged day
\* by day; a late dose was taken 31 minutes after its slot
RECURSIVE LedgerOf(_, _)
LedgerOf(pat, dates) ==
    IF dates = {} THEN <<>>
    ELSE LET d == CHOOSE x \in dates : \A y \in dates : x <= y
         IN [k \in DOMAIN pat[d] |->
                LET r == pat[d][k] IN
                HistoryRecord(r.user, r.med, d, r.slot, r.status,
                              IF r.status # "taken" THEN NoTime
                              ELSE AbsTime(d, r.slot * 60 + (IF r.late THEN 31 ELSE 5) * 60))]
            \o LedgerOf(pat, dates \ {d})

StatCalls ==
    [fn : {"streak", "comparison"}, user : {"u1"}, period : {None}, med : {None}]
    \cup [fn : {"adherence"}, user : {"u1"}, period : {"week", "month", "all"},
          med : {None} \cup StatMeds]
    \cup [fn : {"time_of_day"}, user : {"u1"}, period : {"week", "month", "all"},
          med : {None}]

StatInit ==
    /\ today = StatToday
    /\ now = HMS(8, 10, 0)
    /\ meds = [id \in AllIds |-> NoDoc]
    /\ dose_logs = <<>>
    /\ schedules = <<>>
    /\ proc = [p \in Procs |-> IdleFrame]
    /\ nops = 0
    /\ limit = 0
    /\ call \in StatCalls
    /\ history \in {LedgerOf(pat, StatDates(call.fn)) :
                        pat \in [StatDates(call.fn) -> StatPatterns(call.fn)]}
    /\ out = NoResult

ApplyStreak ==
    /\ call.fn = "streak" /\ out = NoResult
    /\ out' = [fn |-> "streak", res |-> calculate_streak(history, call.user, today)]
    /\ UNCHANGED <<schedules, today, now, meds, dose_logs, history, proc, nops, limit, call>>

ApplyAdherence ==
    /\ call.fn = "adherence" /\ out = NoResult
    /\ out' = [fn |-> "adherence",
               res |-> get_adherence_stats(history, call.user, call.period,
                                           call.med, today)]
    /\ UNCHANGED <<schedules, today, now, meds, dose_logs, history, proc, nops, limit, call>>

ApplyComparison ==
    /\ call.fn = "comparison" /\ out = NoResult
    /\ out' = [fn |-> "comparison",
               res |-> get_comparison_stats(history, call.user, today)]
    /\ UNCHANGED <<schedules, today, now, meds, dose_logs, history, proc, nops, limit, call>>

ApplyTimeOfDay ==
    /\ call.fn = "time_of_day" /\ out = NoResult
    /\ out' = [fn |-> "time_of_day",
               res |-> get_time_of_day_analysis(history, call.user, call.period, today)]
    /\ UNCHANGED <<schedules, today, now, meds, dose_logs, history, proc, nops, limit, call>>

StatNext == ApplyStreak \/ ApplyAdherence \/ ApplyComparison \/ ApplyTimeOfDay

SpecStats == StatInit /\ [][StatNext]_vars

-----------------------------------------------------------------------------
(* Properties                                                              *)

LedgerRows(med, date, slot) ==
    {i \in DOMAIN history : history[i].medication_id = med
                            /\ history[i].date = date
                            /\ history[i].time_slot = slot}

\* the ledger holds, for every slot of sched, an entry of the given day with
\* status taken if the slot was marked in doses, else missed
DayFlushed(med, date, sched, doses) ==
    \A k \in DOMAIN sched :
        \E i \in LedgerRows(med, date, sched[k]) :
            history[i].status = IF DictGet(doses, sched[k]) THEN "taken" ELSE "missed"

Tracked(id) == ~meds[id].absent /\ meds[id].current_stock # NoInt

\* C1: a list, get or mark-dose request that met a medication whose stored
\* doses_taken_date is an earlier day has, once it has persisted or returned
\* today's empty map, a ledger entry of the stale day for every slot of the
\* schedule: taken if the slot was marked that day, missed otherwise.
C1_RolloverFlushesStaleDay ==
    \A p \in Procs :
        LET f == proc[p] IN
        (/\ f.op \in {"list", "get", "mark"}
         /\ f.l_prev_date # 0
         /\ \/ f.pc = "done" /\ f.result.success
            \/ f.pc \in {"ls_log", "mk_log", "mk_fetch"})
        => DayFlushed(f.med, f.l_prev_date, f.l_sched, f.l_prev_doses)

\* C2: in the rollover of get_user_medications, no state has the stored map
\* already cleared and stamped with today while a slot of the stale day has
\* no ledger entry.
C2_ResetOnlyAfterFlush ==
    \A p \in Procs :
        LET f == proc[p] IN
        (/\ f.op = "list"
         /\ f.pc \in {"ls_log", "done"}
         /\ f.l_prev_date # 0
         /\ ~meds[f.med].absent
         /\ meds[f.med].doses_taken_date = f.l_today
         /\ meds[f.med].doses_taken_today = {})
        => \A k \in DOMAIN f.l_sched :
               LedgerRows(f.med, f.l_prev_date, f.l_sched[k]) # {}

\* C3: after a medication was created and two overlapping mark-taken calls of
\* the same path for the same medication and slot have both completed (no
\* other request was made; on the dose path neither call found a dose log of
\* the other), current_stock is exactly one dose_per_intake below the stock at
\* creation, floored at 0.
C3_ConcurrentMarksDecrementOnce ==
    LET a == proc["p1"]
        b == proc["p2"]
    IN (/\ nops = 3
        /\ a.pc = "done" /\ b.pc = "done"
        /\ a.op \in {"mark", "take"} /\ b.op = a.op
        /\ a.taken /\ b.taken
        /\ a.med = b.med /\ a.slot = b.slot /\ a.user = b.user
        /\ a.l_today = b.l_today
        /\ a.l_existing = 0 /\ b.l_existing = 0
        /\ a.result.success /\ b.result.success
        /\ Tracked(a.med) /\ meds[a.med].user_id = a.user)
       => meds[a.med].current_stock
            = Max(0, meds[a.med].total_stock - meds[a.med].dose_per_intake)

\* the slot of request f was already marked taken for the day of the request
\* when the request read it: in the live map (medication path), as a dose log
\* (dose path)
AlreadyTaken(f) ==
    IF f.op = "mark"
    THEN /\ meds[f.med].doses_taken_date = f.l_today
         /\ DictGet(meds[f.med].doses_taken_today, f.slot)
    ELSE f.l_existing # 0

\* C4: the write of a mark-taken call (either path) whose slot is already
\* marked taken for today leaves current_stock unchanged.
C4_MarkTakenIdempotentStock ==
    [][\A p \in Procs :
          LET f == proc[p] IN
          (/\ f.pc \in {"mk_update", "tk_upd"}
           /\ proc'[p].pc # f.pc
           /\ f.taken
           /\ Tracked(f.med)
           /\ AlreadyTaken(f))
          => meds'[f.med].current_stock = meds[f.med].current_stock
      ]_vars

\* C5: current_stock of a stock-tracked medication is never negative.
C5_StockNeverNegative ==
    \A id \in MedIds : Tracked(id) => meds[id].current_stock >= 0


\* the ledger write of request f, as its frame determines it
LogArgs(f) ==
    IF f.op = "mark"
    THEN [date |-> f.l_today, slot |-> f.slot,
          status |-> IF f.taken THEN "taken" ELSE "missed",
          actual_time |-> IF f.taken THEN AbsTime(today, now) ELSE NoTime]
    ELSE [date |-> f.l_prev_date, slot |-> f.l_sched[f.l_idx],
          status |-> IF DictGet(f.l_prev_doses, f.l_sched[f.l_idx])
                     THEN "taken" ELSE "missed",
          actual_time |-> NoTime]

\* request p performs a successful ledger write in this step
Logged(p) ==
    \/ /\ proc[p].pc = "mk_log"
       /\ proc'[p].pc = "mk_fetch" /\ ~proc'[p].l_logfail
    \/ /\ proc[p].pc = "ls_log"
       /\ \/ proc'[p].pc = "ls_log" /\ proc'[p].l_idx = proc[p].l_idx + 1
          \/ proc'[p].pc = "done" /\ proc'[p].result.success

LedgerKeysUnique ==
    \A i, j \in DOMAIN history :
        (/\ history[i].medication_id = history[j].medication_id
         /\ history[i].date = history[j].date
         /\ history[i].time_slot = history[j].time_slot) => i = j

\* C6: the ledger holds at most one entry per (medication_id, date,
\* time_slot), and after a log_dose_event call the entry of its key carries
\* the status and actual_time of that call, every other entry being unchanged.
C6_LedgerUpsert ==
    /\ []LedgerKeysUnique
    /\ [][\A p \in Procs :
             Logged(p) =>
                LET f == proc[p]
                    a == LogArgs(f)
                IN /\ \E i \in DOMAIN history' :
                        /\ history'[i].medication_id = f.med
                        /\ history'[i].date = a.date
                        /\ history'[i].time_slot = a.slot
                        /\ history'[i].status = a.status
                        /\ history'[i].actual_time = a.actual_time
                   /\ Len(history') <= Len(history) + 1
                   /\ \A i \in DOMAIN history :
                        (history[i].date # a.date \/ history[i].time_slot # a.slot
                         \/ history[i].medication_id # f.med)
                        => history'[i] = history[i]
         ]_vars

\* C6 witness: the 20:00 dose of day 1 was logged at mark time (first row of
\* the ledger) and the rollover flush of day 2 has logged the key again: the
\* row is still the only one of its key and carries the flush's values
C6_Witness ==
    /\ Len(history) = 2
    /\ history[1].date = 1 /\ history[1].time_slot = HM(20, 0)
    /\ history[1].status = "taken" /\ history[1].actual_time = NoTime
    /\ history[2].date = 1 /\ history[2].time_slot = HM(8, 0)
    /\ history[2].status = "missed"

\* C7: a completed, successful mark-taken operation (either path) on a
\* medication of the caller reports the evaluator status of the taken dose
\* with offset = taken time - scheduled time, and the ledger then holds
\* exactly one entry for (medication, today, slot), with status taken; for
\* slot 08:00 marked at 08:10 with stock 10 and dose_per_intake 1 as the first
\* request after creation: TAKEN, +10, stock 9.
C7_MarkTakenAllEffects ==
    \A p \in Procs :
        LET f == proc[p] IN
        (/\ f.pc = "done"
         /\ f.op \in {"mark", "take"}
         /\ f.taken
         /\ f.result.success
         /\ ~FindMed(f.med, f.user).absent)
        => /\ f.result.status \in {"taken", "late"}
           /\ f.taken_at # NoTime => f.result.diff = f.taken_at - f.slot
           /\ Cardinality(LedgerRows(f.med, f.l_today, f.slot)) = 1
           /\ \A i \in LedgerRows(f.med, f.l_today, f.slot) :
                 history[i].status = "taken"
           /\ (/\ nops = 2 /\ f.slot = HM(8, 0) /\ f.taken_at = HM(8, 10)
               /\ meds[f.med].total_stock = 10
               /\ meds[f.med].dose_per_intake = 1)
              => /\ f.result.status = "taken" /\ f.result.diff = 10
                 /\ meds[f.med].current_stock = 9

MealTimes == TIMING_PRESETS["With meals"].times

\* C8: generate(frequency, timing) with frequency >= 1 and a timing hint
\* naming the meal-times preset returns the first `frequency` slots of the
\* preset; frequency 2 with "with meals" gives ["08:00", "13:00"].
C8_MealPresetPrefix ==
    (/\ out.fn = "generate"
     /\ call.t \in {"With meals", "with meals"}
     /\ call.f >= 1)
    => /\ out.times = SubSeq(MealTimes, 1, Min(call.f, Len(MealTimes)))
       /\ call.f = 2 => out.times = <<HM(8, 0), HM(13, 0)>>

Ascending(times) ==
    \A i, j \in DOMAIN times : i < j => times[i] < times[j]

\* C9: for every frequency f in 1..6 without a timing hint, generate returns
\* exactly f time slots, pairwise distinct and in ascending clock order.
C9_DefaultScheduleSorted ==
    (/\ out.fn \in {"generate", "med_generate"}
     /\ call.t = None
     /\ call.f \in 1..6)
    => /\ Len(out.times) = call.f
       /\ Cardinality(Range(out.times)) = call.f
       /\ Ascending(out.times)

\* C10: with no taken_at, for scheduled time S and instant N of the same day,
\* evaluate returns PENDING iff N - S < -30 min, AVAILABLE iff
\* -30 min <= N - S <= 120 min, MISSED iff N - S > 120 min, and the offset is
\* N - S in (whole) minutes.
C10_UntakenStatusWindows ==
    (out.fn = "evaluate" /\ call.ta = NoTime)
    => LET d == call.n - call.s * 60
           r == out.res
       IN /\ r.status = "pending" <=> d < (0 - EARLY_WINDOW) * 60
          /\ r.status = "available"
               <=> ((0 - EARLY_WINDOW) * 60 <= d /\ d <= MISSED_THRESHOLD * 60)
          /\ r.status = "missed" <=> d > MISSED_THRESHOLD * 60
          /\ r.diff = TruncDiv(d, 60)

StatusOfDays(days) ==
    IF days <= 3 THEN "critical"
    ELSE IF days <= 7 THEN "low"
    ELSE IF days <= 14 THEN "medium"
    ELSE "healthy"

\* C12: stockStatus is unknown when currentStock is absent, out when
\* currentStock <= 0, and otherwise the threshold status of
\* daysRemaining(currentStock, frequency, dosePerIntake), which is the integer
\* quotient currentStock / (frequency * dosePerIntake) and 0 when that divisor
\* is not positive.
C12_StockStatusByDays ==
    out.fn = "stock_status"
    => LET divisor == call.f * call.n
           daysRemaining == IF divisor > 0 THEN call.s \div divisor ELSE 0
       IN /\ call.s = NoInt => out.status = "unknown"
          /\ (call.s # NoInt /\ call.s <= 0) => out.status = "out"
          /\ (call.s # NoInt /\ call.s > 0)
             => /\ out.days = daysRemaining
                /\ out.status = StatusOfDays(daysRemaining)

\* the ledger entries of the calling user on day d
EntriesOn(d) ==
    {i \in DOMAIN history : history[i].user_id = call.user /\ history[i].date = d}

\* a day is perfect iff it has at least one entry and no missed entry
PerfectDay(d) ==
    /\ EntriesOn(d) # {}
    /\ \A i \in EntriesOn(d) : history[i].status # "missed"

\* the days of the ledger: the dates the entries of the user are grouped by
RecordedDays ==
    {history[i].date : i \in {j \in DOMAIN history : history[j].user_id = call.user}}

\* the days of the ledger from a to b are all perfect
PerfectRun(a, b) == \A d \in RecordedDays : (a <= d /\ d <= b) => PerfectDay(d)

RunLength(a, b) == Cardinality({d \in RecordedDays : a <= d /\ d <= b})

PeriodEntries ==
    {i \in DOMAIN history :
        /\ history[i].user_id = call.user
        /\ history[i].date >= PeriodStart(call.period, today)
        /\ (call.med = None \/ history[i].medication_id = call.med)}

\* C14: adherenceStats for a period (and optional medication filter) without
\* ledger entries returns adherence_percentage = 100, total_doses = 0 and all
\* status counts 0; with entries, adherence_percentage is taken / total * 100
\* (to one decimal) where taken counts every entry with status taken, on time
\* or late.
C14_AdherenceEmptyIsFull ==
    out.fn = "adherence"
    => LET total == Cardinality(PeriodEntries)
           taken == Cardinality({i \in PeriodEntries : history[i].status = "taken"})
           r == out.res
       IN /\ r.total_doses = total
          /\ total = 0 => /\ r.adherence_percentage = 1000
                          /\ r.taken = 0 /\ r.missed = 0
                          /\ r.late = 0 /\ r.skipped = 0
          /\ total > 0 => /\ r.taken = taken
                          /\ 2 * (r.adherence_percentage * total - 1000 * taken) <= total
                          /\ 2 * (1000 * taken - r.adherence_percentage * total) <= total

\* C14 witness: the user has ledger entries, none of them of the medication
\* asked for, and the week's statistics of that medication are 100%, 0 doses
C14_Witness ==
    /\ out.fn = "adherence"
    /\ call.med = "m2" /\ call.period = "week"
    /\ \E i \in DOMAIN history :
           /\ history[i].user_id = call.user /\ history[i].date = today
           /\ history[i].status = "missed"
    /\ out.res.total_doses = 0 /\ out.res.adherence_percentage = 1000

\* the entries of the calling user with a <= date < b
WindowEntries(a, b) ==
    {i \in DOMAIN history : history[i].user_id = call.user
                            /\ history[i].date >= a /\ history[i].date < b}

\* the adherence percentage (in tenths) of a window that has entries
WindowPct(a, b) ==
    Pct10(Cardinality({i \in WindowEntries(a, b) : history[i].status = "taken"}),
          Cardinality(WindowEntries(a, b)))

\* C17: comparisonStats returns delta = adherence of [today-7, today) minus
\* adherence of [today-14, today-7), also when the previous window's adherence
\* is 0%, and trend = improving iff delta > 5, declining iff delta < -5, stable
\* otherwise (windows with entries; percentages in tenths).
C17_ComparisonDelta ==
    (/\ out.fn = "comparison"
     /\ WindowEntries(today - 7, today) # {}
     /\ WindowEntries(today - 14, today - 7) # {})
    => /\ out.res.delta = WindowPct(today - 7, today)
                           - WindowPct(today - 14, today - 7)
       /\ out.res.trend = "improving" <=> out.res.delta > 50
       /\ out.res.trend = "declining" <=> out.res.delta < 0 - 50
       /\ out.res.trend = "stable"
            <=> (0 - 50 <= out.res.delta /\ out.res.delta <= 50)

\* C18: in comparisonStats a window without ledger entries is reported with
\* adherence percentage 100 and zero counts.
C18_ComparisonEmptyWindow ==
    out.fn = "comparison"
    => /\ WindowEntries(today - 7, today) = {}
          => /\ out.res.current_week.adherence_percentage = 1000
             /\ out.res.current_week.total = 0
             /\ out.res.current_week.taken = 0
             /\ out.res.current_week.missed = 0
       /\ WindowEntries(today - 14, today - 7) = {}
          => /\ out.res.previous_week.adherence_percentage = 1000
             /\ out.res.previous_week.total = 0
             /\ out.res.previous_week.taken = 0
             /\ out.res.previous_week.missed = 0

\* C15: a mark-dose call (medication path) whose ledger write failed after
\* the live state was updated does not return the plain success result, and
\* the write of a repeated mark-taken call for a slot already marked taken
\* leaves current_stock unchanged.
C15_LedgerFailureReported ==
    /\ [](\A p \in Procs :
             LET f == proc[p] IN
             (f.pc = "done" /\ f.op = "mark" /\ f.l_logfail)
             => ~(f.result.success /\ f.result.message = "Dose at slot marked"))
    /\ [][\A p \in Procs :
             LET f == proc[p] IN
             (/\ f.pc = "mk_update" /\ proc'[p].pc = "mk_log"
              /\ f.taken /\ Tracked(f.med)
              /\ meds[f.med].doses_taken_date = f.l_today
              /\ DictGet(meds[f.med].doses_taken_today, f.slot))
             => meds'[f.med].current_stock = meds[f.med].current_stock
         ]_vars

NotFoundMessages == {"Medication not found", "Medication not found or not owned by you"}

\* C16: every operation addressed to a medication id that does not exist
\* returns a not-found failure and leaves the medications, the live dose logs
\* and the ledger without any record of that id.
C16_UnknownIdNotFound ==
    /\ \A p \in Procs :
          LET f == proc[p] IN
          (/\ f.pc = "done" /\ f.med = UnknownId
           /\ f.op \in {"get", "update", "update_stock", "refill", "mark", "take"})
          => ~f.result.success /\ f.result.message \in NotFoundMessages
    /\ meds[UnknownId].absent
    /\ \A i \in DOMAIN dose_logs : dose_logs[i].medication_id # UnknownId
    /\ \A i \in DOMAIN history : history[i].medication_id # UnknownId

\* C20: a ledger write of the day-rollover flush leaves every ledger entry
\* that already exists unchanged (it only adds entries for slots of the stale
\* day that have none), so a slot logged as taken at mark time keeps its
\* actual_time and its was_late flag.
C20_FlushKeepsExistingEntries ==
    [][\A p \in Procs :
          proc[p].pc = "ls_log"
          => \A i \in DOMAIN history : history'[i] = history[i]
      ]_vars

\* C19: at most one schedule record exists per medication in every reachable
\* state, under any interleaving of get_schedule, today-view and
\* update_schedule calls.
C19_OneSchedulePerMedication ==
    \A id \in MedIds :
        ~meds[id].absent
        => Cardinality({i \in DOMAIN schedules : schedules[i].medication_id = id}) <= 1

\* C22: for every integer frequency and every timing hint, generate returns
\* pairwise distinct slots, exactly `frequency` of them when frequency >= 1
\* (also for frequency > 6 and for presets with fewer fixed slots) and the
\* empty list when frequency <= 0.
C22_GenerateLengthIsFrequency ==
    out.fn \in {"generate", "med_generate"}
    => /\ call.f >= 1 => /\ Len(out.times) = call.f
                         /\ Cardinality(Range(out.times)) = Len(out.times)
       /\ call.f <= 0 => out.times = <<>>

\* the calendar days a..b are all perfect
PerfectCalendarRun(a, b) == \A d \in a..b : PerfectDay(d)

\* C24: current_streak and best_streak count only runs of perfect days that
\* are adjacent calendar dates: current_streak is the length of the run of
\* perfect calendar days that ends at the most recent date with entries other
\* than today, best_streak the length of the longest run of perfect calendar
\* days; a day without entries between two perfect days ends the run.
C24_StreakCalendarAdjacent ==
    out.fn = "streak"
    => LET past == RecordedDays \ {today}
           last == IF past = {} THEN 0
                   ELSE CHOOSE d \in past : \A e \in past : e <= d
           first == IF RecordedDays = {} THEN 1
                    ELSE CHOOSE d \in RecordedDays : \A e \in RecordedDays : d <= e
           runs == {r \in (first..today) \X (first..today) :
                       r[1] <= r[2] /\ PerfectCalendarRun(r[1], r[2])}
       IN /\ out.res.current_streak
               = Cardinality({d \in first..last : PerfectCalendarRun(d, last)})
          /\ \A r \in runs : out.res.best_streak >= r[2] - r[1] + 1
          /\ \/ out.res.best_streak = 0
             \/ \E r \in runs : out.res.best_streak = r[2] - r[1] + 1

\* C26: every ledger entry written by log_dose_event has was_late = true iff
\* its status is taken, an actual_time was supplied and actual_time is
\* strictly more than 30 minutes after the instant date + time_slot; entries
\* with status missed or skipped, or without actual_time, have was_late false.
C26_WasLateStrictlyAfterWindow ==
    out.fn = "log_event"
    => \A h \in {out.fresh, out.over} :
          /\ Len(h) = 1
          /\ h[1].status = call.t /\ h[1].actual_time = call.n
          /\ h[1].was_late
               <=> (/\ call.t = "taken"
                    /\ call.n # NoTime
                    /\ call.n - AbsTime(call.f, call.s * 60) > 30 * 60)
          /\ (call.t \in {"missed", "skipped"} \/ call.n = NoTime) => ~h[1].was_late

\* C26 witness: a dose logged as taken exactly 30 minutes after its slot, over
\* an entry that was late, is not late
C26_Witness ==
    /\ out.fn = "log_event"
    /\ call.t = "taken"
    /\ call.n = AbsTime(call.f, call.s * 60) + 30 * 60
    /\ ~out.over[1].was_late /\ ~out.fresh[1].was_late

\* C29: marking a not-taken slot as taken and then un-marking it restores
\* current_stock, for every current_stock >= 0 and dose_per_intake >= 1
\* (also when current_stock < dose_per_intake); un-marking a slot that is
\* not marked taken leaves current_stock unchanged.
C29_MarkUnmarkRoundTrip ==
    (out.fn = "mark_unmark" /\ call.s >= 0 /\ call.n >= 1)
    => /\ out.marked = Max(0, call.s - call.n)
       /\ out.unmarked = call.s
       /\ out.unmark_only = call.s

\* C23: in every today-view returned, a dose item has can_take true iff its
\* status is available; pending, taken, late and missed items have it false.
C23_CanTakeOnlyAvailable ==
    \A p \in Procs :
        (proc[p].pc = "done" /\ proc[p].op = "today" /\ proc[p].result.success)
        => \A i \in DOMAIN proc[p].result.doses :
              proc[p].result.doses[i].can_take
                  <=> proc[p].result.doses[i].status = "available"

\* the hours of the four time periods
PeriodHours(key) ==
    CASE key = "morning" -> 6..11
      [] key = "afternoon" -> 12..17
      [] key = "evening" -> 18..23
      [] key = "night" -> 0..5

RECURSIVE SumTotals(_)
SumTotals(items) ==
    IF items = <<>> THEN 0 ELSE items[1].total + SumTotals(Tail(items))

\* C25: the time-of-day analysis assigns every ledger entry of the period to
\* exactly one period by the hour of its time_slot, so the totals reported sum
\* to the number of entries; and whenever a period has an entry, worst_period
\* names a reported period whose miss percentage is the maximum reported.
C25_TimeOfDayWorstPeriod ==
    out.fn = "time_of_day"
    => LET entries == {i \in DOMAIN history :
                          /\ history[i].user_id = call.user
                          /\ history[i].date >= PeriodStart(call.period, today)}
           items == out.res.time_analysis
           keys == {"morning", "afternoon", "evening", "night"}
       IN /\ \A i \in entries :
                Cardinality({k \in keys : Hour(history[i].time_slot) \in PeriodHours(k)}) = 1
          /\ \A j \in DOMAIN items :
                items[j].total
                  = Cardinality({i \in entries :
                                    Hour(history[i].time_slot) \in PeriodHours(items[j].period)})
          /\ SumTotals(items) = Cardinality(entries)
          /\ entries # {}
             => \E j \in DOMAIN items :
                   /\ out.res.worst_period = items[j].period
                   /\ \A k \in DOMAIN items :
                         items[k].miss_percentage <= items[j].miss_percentage

\* C27: live state and ledger agree: when a mark-dose call (taken or
\* un-taken) has returned success, then within the day of the call the ledger
\* entry for (medication, today, slot) exists and has status taken iff
\* doses_taken_today[slot] is true.
C27_LiveStateMatchesLedger ==
    \A p \in Procs :
        LET f == proc[p] IN
        (/\ f.pc = "done" /\ f.op = "mark" /\ f.result.success
         /\ f.l_today = today /\ meds[f.med].doses_taken_date = today)
        => /\ LedgerRows(f.med, today, f.slot) # {}
           /\ \A i \in LedgerRows(f.med, today, f.slot) :
                 history[i].status = "taken"
                     <=> DictGet(meds[f.med].doses_taken_today, f.slot)

\* C28: no live-state update is lost when requests overlap: after a
\* medication was created and two mark-dose(taken) calls on different slots
\* of it, or a mark-dose(taken) call and a refill of n, have both returned
\* success, doses_taken_today marks every slot so marked and current_stock is
\* the stock given at creation adjusted by both operations (in one of the
\* two orders in which the floor at 0 can apply).
C28_NoLostUpdate ==
    \A p, q \in Procs :
        LET f == proc[p]
            g == proc[q]
            m == meds[f.med]
            s0 == m.total_stock
            d == m.dose_per_intake
        IN (/\ p # q /\ f.pc = "done" /\ g.pc = "done"
            /\ f.op = "mark" /\ f.taken /\ f.result.success
            /\ g.result.success /\ g.med = f.med
            /\ Tracked(f.med) /\ s0 # NoInt)
           => /\ (g.op = "mark" /\ g.taken /\ g.slot # f.slot)
                 => /\ DictGet(m.doses_taken_today, f.slot)
                    /\ DictGet(m.doses_taken_today, g.slot)
                    /\ m.current_stock = Max(0, Max(0, s0 - d) - d)
              /\ g.op = "refill"
                 => /\ DictGet(m.doses_taken_today, f.slot)
                    /\ m.current_stock \in {Max(0, s0 - d) + g.amount,
                                            Max(0, s0 + g.amount - d)}

\* the schedule record of a medication is flagged custom
HasCustomSchedule(med, user) ==
    \E i \in ScheduleMatches(med, user) : schedules[i].is_custom

\* C21: after update_medication changed the frequency of a medication whose
\* schedule is not custom, the stored schedule is the generated schedule of
\* the new frequency and timing and has exactly `frequency` slots; a schedule
\* flagged custom is changed only by a custom schedule write.
C21_ScheduleRegeneratedOnUpdate ==
    /\ [](\A p \in Procs :
             LET f == proc[p]
                 m == meds[f.med]
             IN (/\ f.pc = "done" /\ f.op = "update_freq" /\ f.result.success
                 /\ ~HasCustomSchedule(f.med, f.user))
                => /\ Len(m.schedule_times) = m.frequency
                   /\ m.schedule_times \in {generate_schedule_times(m.frequency, m.timing),
                                            med_generate_schedule_times(m.frequency)}
                   /\ \A i \in ScheduleMatches(f.med, f.user) :
                         schedules[i].scheduled_times
                             = generate_schedule_times(m.frequency, m.timing))
    /\ [][\A i \in DOMAIN schedules :
             (/\ schedules[i].is_custom
              /\ ~\E p \in Procs : proc[p].pc = "cs_write" /\ proc[p].custom)
             => (i \in DOMAIN schedules' /\ schedules'[i] = schedules[i])
         ]_vars

\* C30: the two stores of today's dose state agree: a today-view returned
\* while doses_taken_today marks a slot as taken today reports that slot as
\* taken or late, and after a successful take-dose on the dose path the
\* medication's doses_taken_today marks the slot.
C30_DoseStoresConsistent ==
    \A p \in Procs :
        LET f == proc[p] IN
        /\ (f.pc = "done" /\ f.op = "today" /\ f.result.success)
           => \A i \in DOMAIN f.result.doses :
                 LET item == f.result.doses[i]
                     m == meds[item.medication_id]
                 IN (/\ m.doses_taken_date = today
                     /\ DictGet(m.doses_taken_today, item.scheduled_time))
                    => item.status \in {"taken", "late"}
        /\ (/\ f.pc = "done" /\ f.op = "take" /\ f.result.success
            /\ ~meds[f.med].absent)
           => /\ meds[f.med].doses_taken_date = today
              /\ DictGet(meds[f.med].doses_taken_today, f.slot)

====
